---- MODULE Spec2Model ----
(***************************************************************************)
(* A model of minigrep (src/src/lib.rs, src/src/style.rs).                 *)
(*                                                                         *)
(* A string is a sequence of characters; a character is an atom written as *)
(* a TLA+ string ("a", "A", "ESC" for \x1b, "LF" for \n, "SIGMA" for the   *)
(* Greek capital sigma, "sigma" and "fsigma" for the small and the final   *)
(* small sigma).  A string literal of the source that no operation looks   *)
(* into (an error message) is one atom.  An Option or a Result not yet     *)
(* computed is the empty sequence, a computed one a one-element sequence.  *)
(***************************************************************************)
EXTENDS Naturals, Sequences, FiniteSets

VARIABLES
    \* Config::new
    args,               \* the env::Args iterator handed to Config::new
    env,                \* the process environment's entry CASE_INSENSITIVE
    built,              \* <<>> before Config::new returns, then <<its result>>
    stderr,             \* the lines written with eprintln!
    \* run
    config,             \* the Config handed to run
    fs,                 \* the file system: file name -> what reading it gives
    pc,                 \* the position of run
    contents,           \* run's local: the lines of the file
    lines_with_query,   \* run's local: the iterator over the matched indices
    stdout,             \* the lines written with println!
    result,             \* <<>> while run is running, then <<its result>>
    log,                \* history: the steps run has taken, in order
    \* format
    fmt_line, fmt_word, fmt_style, formatted,
    \* search, search_case_insensitive
    s_query, s_contents, found, found_ci

config_vars == <<args, env, built, stderr>>
run_vars    == <<config, fs, pc, contents, lines_with_query, stdout, result, log>>
format_vars == <<fmt_line, fmt_word, fmt_style, formatted>>
search_vars == <<s_query, s_contents, found, found_ci>>
vars == <<config_vars, run_vars, format_vars, search_vars>>

----------------------------------------------------------------------------
(* Bounds of the model *)

MaxLineLen == 3         \* characters of a line handed to format
MaxWordLen == 2         \* characters of a query
MaxSearchLen == 2       \* characters of a line handed to the matchers
MaxLines == 2           \* lines handed to the matchers
MaxContentLen == 4      \* characters of a file
MaxArgs == 5            \* values the argument iterator yields

\* The characters the enumerated lines and queries are made of.
Alphabet == {"a", "A", "SIGMA"}

\* Every string of at most n characters of S.
Strings(S, n) == UNION {[1..k -> S] : k \in 0..n}

----------------------------------------------------------------------------
(* Strings *)

U8Max == 255

DigitChar == <<"0", "1", "2", "3", "4", "5", "6", "7", "8", "9">>

\* "{}" of an unsigned integer: its decimal digits, no padding.
RECURSIVE Display(_)
Display(n) ==
    IF n < 10 THEN <<DigitChar[n + 1]>>
    ELSE Display(n \div 10) \o <<DigitChar[(n % 10) + 1]>>

\* s[from..] of Rust, from a 0-based offset.
Drop(s, k) == SubSeq(s, k + 1, Len(s))

\* s.starts_with(pat)
StartsWith(s, pat) ==
    /\ Len(pat) <= Len(s)
    /\ SubSeq(s, 1, Len(pat)) = pat

\* str::contains: a scan from the left for the first place pat starts at.
RECURSIVE contains(_, _)
contains(s, pat) ==
    IF StartsWith(s, pat) THEN TRUE
    ELSE IF s = <<>> THEN FALSE
    ELSE contains(Tail(s), pat)

\* str::replace: every match of `from`, found from the left and not
\* overlapping the one before, is replaced by `to`.  The empty pattern
\* matches at every character boundary, the end included.
RECURSIVE replace(_, _, _)
replace(s, from, to) ==
    IF from = <<>> THEN
        IF s = <<>> THEN to
        ELSE to \o <<Head(s)>> \o replace(Tail(s), from, to)
    ELSE IF s = <<>> THEN <<>>
    ELSE IF StartsWith(s, from) THEN to \o replace(Drop(s, Len(from)), from, to)
    ELSE <<Head(s)>> \o replace(Tail(s), from, to)

----------------------------------------------------------------------------
(* style.rs *)

ESC == "ESC"

\* add_fg: "\x1b[38;2;{};{};{};1m{}\x1b[0m"
add_fg(s, r, g, b) ==
    <<ESC, "[", "3", "8", ";", "2", ";">> \o Display(r) \o <<";">> \o Display(g)
        \o <<";">> \o Display(b) \o <<";", "1", "m">> \o s \o <<ESC, "[", "0", "m">>

\* add_style: "\x1b[{};1m{}\x1b[0m" for style <= 9, the string itself otherwise.
add_style_up_to_10(s, style) ==
    IF style <= 10 THEN <<ESC, "[">> \o Display(style) \o <<";", "1", "m">> \o s
                        \o <<ESC, "[", "0", "m">>
    ELSE s
add_style(s, style) ==
    IF style <= 9 THEN <<ESC, "[">> \o Display(style) \o <<";", "1", "m">> \o s
                        \o <<ESC, "[", "0", "m">>
    ELSE s

----------------------------------------------------------------------------
(* lib.rs: format *)

format_first_occurrence(line, word, style) ==
    IF contains(line, word) /\ word # <<>>
    THEN LET k == CHOOSE i \in 0..Len(line) : StartsWith(Drop(line, i), word)
                     /\ \A j \in 0..(i - 1) : ~StartsWith(Drop(line, j), word)
         IN  SubSeq(line, 1, k) \o add_style(word, style)
                 \o Drop(line, k + Len(word))
    ELSE line
format(line, word, style) ==
    LET line_s == line
        word_format == add_style(word, style)
    IN  replace(line_s, word, word_format)

----------------------------------------------------------------------------
(* lib.rs: search, search_case_insensitive *)

UpperLetters == <<"A", "B", "C", "D", "E", "F", "G", "H", "I", "J", "K", "L", "M",
                  "N", "O", "P", "Q", "R", "S", "T", "U", "V", "W", "X", "Y", "Z">>
LowerLetters == <<"a", "b", "c", "d", "e", "f", "g", "h", "i", "j", "k", "l", "m",
                  "n", "o", "p", "q", "r", "s", "t", "u", "v", "w", "x", "y", "z">>

\* The characters of the model with Unicode's Cased property, and those with
\* Case_Ignorable (the full stop, the colon, the apostrophes).
Cased == {UpperLetters[i] : i \in 1..26} \cup {LowerLetters[i] : i \in 1..26}
             \cup {"SIGMA", "sigma", "fsigma"}
Case_Ignorable == {".", ":", "'", "LQUOTE", "RQUOTE"}

\* char::to_lowercase
char_to_lowercase(c) ==
    IF \E i \in 1..26 : UpperLetters[i] = c
    THEN LowerLetters[CHOOSE i \in 1..26 : UpperLetters[i] = c]
    ELSE IF c = "SIGMA" THEN "sigma"
    ELSE c

\* case_ignorable_then_cased of alloc::str: the first character of s that is
\* not case-ignorable exists and is cased.
RECURSIVE case_ignorable_then_cased(_)
case_ignorable_then_cased(s) ==
    IF s = <<>> THEN FALSE
    ELSE IF Head(s) \in Case_Ignorable THEN case_ignorable_then_cased(Tail(s))
    ELSE Head(s) \in Cased

Reverse(s) == [i \in 1..Len(s) |-> s[Len(s) + 1 - i]]

\* map_uppercase_sigma of alloc::str: the capital sigma at 1-based place i of
\* s becomes the final sigma at the end of a word, the small sigma elsewhere.
map_uppercase_sigma(s, i) ==
    LET is_word_final ==
            /\ case_ignorable_then_cased(Reverse(SubSeq(s, 1, i - 1)))
            /\ ~case_ignorable_then_cased(SubSeq(s, i + 1, Len(s)))
    IN  IF is_word_final THEN "fsigma" ELSE "sigma"

\* str::to_lowercase
to_lowercase(s) ==
    [i \in 1..Len(s) |->
        IF s[i] = "SIGMA" THEN map_uppercase_sigma(s, i) ELSE char_to_lowercase(s[i])]

\* The loop of search from index i on (indices are 0-based, as in the source).
RECURSIVE search_loop(_, _, _, _)
search_loop(query, lines, i, res) ==
    IF i >= Len(lines) THEN res
    ELSE search_loop(query, lines, i + 1,
                     IF contains(lines[i + 1], query) THEN Append(res, i) ELSE res)

search_from_second(query, lines) == search_loop(query, lines, 1, <<>>)
search(query, lines) == search_loop(query, lines, 0, <<>>)

RECURSIVE search_case_insensitive_loop(_, _, _, _)
search_case_insensitive_loop(query, lines, i, res) ==
    IF i >= Len(lines) THEN res
    ELSE search_case_insensitive_loop(query, lines, i + 1,
            IF contains(to_lowercase(lines[i + 1]), query) THEN Append(res, i) ELSE res)

search_case_insensitive_query_kept(query_, lines) ==
    search_case_insensitive_loop(query_, lines, 0, <<>>)
search_case_insensitive(query_, lines) ==
    LET query == to_lowercase(query_)
    IN  search_case_insensitive_loop(query, lines, 0, <<>>)

----------------------------------------------------------------------------
(* lib.rs: Config::new *)

Digits == {DigitChar[i] : i \in 1..10}
DigitValue(c) == (CHOOSE i \in 1..10 : DigitChar[i] = c) - 1

\* The digit loop of u8::from_str: <<>> for an error (a character that is no
\* digit, a value above u8::MAX), <<value>> otherwise.
RECURSIVE parse_digits(_, _)
parse_digits(digits, acc) ==
    IF digits = <<>> THEN <<acc>>
    ELSE IF Head(digits) \notin Digits THEN <<>>
    ELSE LET v == acc * 10 + DigitValue(Head(digits))
         IN  IF v > U8Max THEN <<>> ELSE parse_digits(Tail(digits), v)

\* str::parse::<u8>: the empty string is an error; one leading "+" is
\* skipped (a "-" is not, the type being unsigned) and must be followed by
\* a digit.
parse_u8_sign_refused(arg) ==
    IF arg = <<>> THEN <<>> ELSE parse_digits(arg, 0)
parse_u8(arg) ==
    IF arg = <<>> THEN <<>>
    ELSE LET digits == IF Head(arg) = "+" THEN Tail(arg) ELSE arg
         IN  IF digits = <<>> THEN <<>> ELSE parse_digits(digits, 0)

\* env::var: Ok(value) when the variable is set to valid Unicode, an error
\* when it is not set (NotPresent) and when its value is not valid Unicode
\* (NotUnicode).
env_var(e) ==
    IF e.kind = "unicode" THEN [ok |-> TRUE, value |-> e.value]
    ELSE IF e.kind = "unset" THEN [ok |-> FALSE, value |-> <<"NotPresent">>]
    ELSE [ok |-> FALSE, value |-> <<"NotUnicode">>]

MissingQuery == add_fg(<<"Missing the first argument (query)">>, 255, 0, 0)
MissingFilename == add_fg(<<"Missing the second argument (filename)">>, 255, 0, 0)
WarnStyle ==
    add_fg(<<"WARNING: Could not parse the third argument (style) as a u8">>,
           255, 255, 0)
WarnTooMany ==
    add_fg(<<"WARNING: Too many arguments; the 4th one and up will be discarded">>,
           255, 255, 0)

\* Iterator::next on the values still to come: <<>> for None.
Next_(it) == IF it = <<>> THEN <<>> ELSE <<Head(it)>>
Rest(it) == IF it = <<>> THEN <<>> ELSE Tail(it)

\* Config::new after its first args.next(), as a function of the values the
\* iterator still yields and of the environment: what it returns (ret) and
\* what it writes to the error stream (written).
new_from(it1, e) ==
    LET query == Next_(it1)
        it2 == Rest(it1)
        filename == Next_(it2)
        it3 == Rest(it2)
        third == Next_(it3)
        it4 == Rest(it3)
        fourth == Next_(it4)
        parsed == IF third = <<>> THEN <<>> ELSE parse_u8(third[1])
        style == IF parsed = <<>> THEN 0 ELSE parsed[1]
        warnings ==
            (IF third # <<>> /\ parsed = <<>> THEN <<WarnStyle>> ELSE <<>>)
            \o (IF third # <<>> /\ fourth # <<>> THEN <<WarnTooMany>> ELSE <<>>)
        case_sensitive == ~env_var(e).ok
    IN  IF query = <<>> THEN
            [ret |-> [ok |-> FALSE, err |-> MissingQuery], written |-> <<>>]
        ELSE IF filename = <<>> THEN
            [ret |-> [ok |-> FALSE, err |-> MissingFilename], written |-> <<>>]
        ELSE
            [ret |-> [ok |-> TRUE,
                      config |-> [query |-> query[1], filename |-> filename[1],
                                  style |-> style, case_sensitive |-> case_sensitive]],
             written |-> warnings]

\* Config::new: the first value, the program name, is skipped.
new_program_name_kept(argv, e) == new_from(argv, e)
new(argv, e) == new_from(Rest(argv), e)

ConfigNew ==
    /\ built = <<>>
    /\ LET r == new(args, env)
       IN  /\ built' = <<r.ret>>
           /\ stderr' = stderr \o r.written
    /\ UNCHANGED <<args, env, run_vars, format_vars, search_vars>>

----------------------------------------------------------------------------
(* lib.rs: read_file, run *)

LF == "LF"

\* str::split("\n"): the pieces between the line feeds; a string without one
\* (the empty string too) is one piece.
RECURSIVE split(_)
split(content) ==
    IF \A i \in 1..Len(content) : content[i] # LF THEN <<content>>
    ELSE LET k == CHOOSE i \in 1..Len(content) :
                      content[i] = LF /\ \A j \in 1..(i - 1) : content[j] # LF
         IN  <<SubSeq(content, 1, k - 1)>> \o split(Drop(content, k))

\* read_file: the lines of the file, or the error message when
\* fs::read_to_string fails (no such file, no permission, not UTF-8).
read_file_missing_as_empty(filename, files) ==
    IF files[filename].kind # "not_utf8"
    THEN [ok |-> TRUE, lines |-> split(files[filename].content)]
    ELSE [ok |-> FALSE,
          err |-> add_fg(<<"Could not open the file ">> \o filename, 255, 0, 0)]
read_file(filename, files) ==
    IF files[filename].kind = "text"
    THEN [ok |-> TRUE, lines |-> split(files[filename].content)]
    ELSE [ok |-> FALSE,
          err |-> add_fg(<<"Could not open the file ">> \o filename, 255, 0, 0)]

\* let contents = read_file(config.filename)?;
ReadFile ==
    /\ pc = "read_file"
    /\ LET r == read_file(config.filename, fs)
       IN  IF r.ok
           THEN /\ contents' = r.lines
                /\ pc' = "search"
                /\ UNCHANGED result
           ELSE /\ result' = <<[ok |-> FALSE, err |-> r.err]>>
                /\ pc' = "done"
                /\ UNCHANGED contents
    /\ log' = Append(log, <<"read_file">>)
    /\ UNCHANGED <<config, fs, lines_with_query, stdout>>
    /\ UNCHANGED <<config_vars, format_vars, search_vars>>

\* let lines_with_query = if config.case_sensitive { .. } else { .. };
Search ==
    /\ pc = "search"
    /\ lines_with_query' =
            IF config.case_sensitive
            THEN search(config.query, contents)
            ELSE search_case_insensitive(config.query, contents)
    /\ pc' = "print"
    /\ log' = Append(log, <<"search">>)
    /\ UNCHANGED <<config, fs, contents, stdout, result>>
    /\ UNCHANGED <<config_vars, format_vars, search_vars>>

\* One turn of the loop of the branch config.style > 0.
PrintFormatted_case_folded ==
    /\ pc = "print"
    /\ config.style > 0
    /\ lines_with_query # <<>>
    /\ LET n_line == Head(lines_with_query)
       IN  stdout' = Append(stdout,
                IF config.case_sensitive
                THEN format(contents[n_line + 1], config.query, config.style)
                ELSE format(to_lowercase(contents[n_line + 1]),
                            to_lowercase(config.query), config.style))
    /\ lines_with_query' = Tail(lines_with_query)
    /\ log' = Append(log, <<"print", Head(lines_with_query)>>)
    /\ UNCHANGED <<config, fs, pc, contents, result>>
    /\ UNCHANGED <<config_vars, format_vars, search_vars>>
PrintFormatted ==
    /\ pc = "print"
    /\ config.style > 0
    /\ lines_with_query # <<>>
    /\ LET n_line == Head(lines_with_query)
       IN  stdout' = Append(stdout,
                            format(contents[n_line + 1], config.query, config.style))
    /\ lines_with_query' = Tail(lines_with_query)
    /\ log' = Append(log, <<"print", Head(lines_with_query)>>)
    /\ UNCHANGED <<config, fs, pc, contents, result>>
    /\ UNCHANGED <<config_vars, format_vars, search_vars>>

\* One turn of the loop of the branch config.style = 0.
PrintRaw ==
    /\ pc = "print"
    /\ ~(config.style > 0)
    /\ lines_with_query # <<>>
    /\ LET n_line == Head(lines_with_query)
       IN  stdout' = Append(stdout, contents[n_line + 1])
    /\ lines_with_query' = Tail(lines_with_query)
    /\ log' = Append(log, <<"print", Head(lines_with_query)>>)
    /\ UNCHANGED <<config, fs, pc, contents, result>>
    /\ UNCHANGED <<config_vars, format_vars, search_vars>>

\* Ok(())
Return ==
    /\ pc = "print"
    /\ lines_with_query = <<>>
    /\ result' = <<[ok |-> TRUE, err |-> <<>>]>>
    /\ pc' = "done"
    /\ log' = Append(log, <<"return">>)
    /\ UNCHANGED <<config, fs, contents, lines_with_query, stdout>>
    /\ UNCHANGED <<config_vars, format_vars, search_vars>>

----------------------------------------------------------------------------
(* The calls of format, search and search_case_insensitive *)

Format ==
    /\ formatted = <<>>
    /\ formatted' = <<format(fmt_line, fmt_word, fmt_style)>>
    /\ UNCHANGED <<fmt_line, fmt_word, fmt_style>>
    /\ UNCHANGED <<config_vars, run_vars, search_vars>>

CallSearch ==
    /\ found = <<>>
    /\ found' = <<search(s_query, s_contents)>>
    /\ UNCHANGED <<s_query, s_contents, found_ci>>
    /\ UNCHANGED <<config_vars, run_vars, format_vars>>

CallSearchCaseInsensitive ==
    /\ found_ci = <<>>
    /\ found_ci' = <<search_case_insensitive(s_query, s_contents)>>
    /\ UNCHANGED <<s_query, s_contents, found>>
    /\ UNCHANGED <<config_vars, run_vars, format_vars>>

----------------------------------------------------------------------------
(* Inputs *)

\* The lines and the words of the tests and of the doc test of lib.rs.
TestSentence ==
    <<"I", " ", "l", "o", "v", "e", " ", "b", "l", "u", "e", " ",
      "c", "h", "e", "e", "s", "e", "!">>
TestWord == <<"l", "o", "v", "e">>
DocSentence ==
    <<"T", "h", "i", "s", " ", "i", "s", " ", "a", " ", "f", "i", "n", "e", " ",
      "s", "e", "n", "t", "e", "n", "c", "e", "!">>
DocWord == <<"f", "i", "n", "e">>
TestQuery == <<"d", "u", "c", "t">>
TestContents ==
    << <<"R", "u", "s", "t", ":">>,
       <<"s", "a", "f", "e", ",", " ", "f", "a", "s", "t", ",", " ",
         "p", "r", "o", "d", "u", "c", "t", "i", "v", "e", ".">>,
       <<"P", "i", "c", "k", " ", "t", "h", "r", "e", "e", ".">>,
       <<"LQUOTE", "D", "u", "c", "t", "a", "p", "e", "RQUOTE", " ", "i", "s", " ",
         "a", " ", "t", "y", "p", "o">> >>

Words == Strings(Alphabet, MaxWordLen)
\* The queries handed to the matchers alone: the runs of one letter, some of
\* mixed case and with a sigma, and that of the tests.
SearchQueries ==
    Strings({"a"}, MaxWordLen)
    \cup {<<"A">>, <<"SIGMA">>, <<"a", "SIGMA">>, <<"A", "a">>, TestQuery}
StyleCodes == 0..11 \cup {U8Max}
RunStyles == {0, 1, 9, 10}

ArgTokens ==
    {<<"q">>, <<>>, <<"9">>, <<"2", "5", "5">>, <<"2", "5", "6">>, <<"+", "2">>,
     <<"-", "1">>}
EnvStates ==
    {[kind |-> "unset", value |-> <<>>],
     [kind |-> "unicode", value |-> <<>>],
     [kind |-> "unicode", value |-> <<"1">>],
     [kind |-> "not_unicode", value |-> <<"xFF">>]}

FileNames == {<<"f">>}
Files ==
    {[kind |-> "missing", content |-> <<>>], [kind |-> "not_utf8", content |-> <<>>]}
    \cup {[kind |-> "text", content |-> c] :
              c \in Strings(Alphabet \cup {LF}, MaxContentLen)}
Configs ==
    [query : Words, filename : FileNames, style : RunStyles, case_sensitive : BOOLEAN]

\* The variables of the operations a specification leaves out.
ConfigIdle ==
    /\ args = <<>> /\ env = [kind |-> "unset", value |-> <<>>]
    /\ built = <<[ok |-> FALSE, err |-> <<>>]>> /\ stderr = <<>>
RunIdle ==
    /\ config = [query |-> <<>>, filename |-> <<"f">>, style |-> 0,
                 case_sensitive |-> TRUE]
    /\ fs = [f \in FileNames |-> [kind |-> "missing", content |-> <<>>]]
    /\ pc = "idle" /\ contents = <<>> /\ lines_with_query = <<>>
    /\ stdout = <<>> /\ result = <<>> /\ log = <<>>
FormatIdle ==
    /\ fmt_line = <<>> /\ fmt_word = <<>> /\ fmt_style = 0 /\ formatted = <<<<>>>>
SearchIdle ==
    /\ s_query = <<>> /\ s_contents = <<>> /\ found = <<<<>>>> /\ found_ci = <<<<>>>>

----------------------------------------------------------------------------
(* Specifications *)

\* run, from any Config and any state of the file it names.
Init ==
    /\ config \in Configs
    /\ fs \in [FileNames -> Files]
    /\ pc = "read_file" /\ contents = <<>> /\ lines_with_query = <<>>
    /\ stdout = <<>> /\ result = <<>> /\ log = <<>>
    /\ ConfigIdle /\ FormatIdle /\ SearchIdle
Next == ReadFile \/ Search \/ PrintFormatted \/ PrintRaw \/ Return
Spec == Init /\ [][Next]_vars

\* Config::new, from any arguments and any state of the environment.
InitConfig ==
    /\ args \in Strings(ArgTokens, MaxArgs)
    /\ env \in EnvStates
    /\ built = <<>> /\ stderr = <<>>
    /\ RunIdle /\ FormatIdle /\ SearchIdle
NextConfig == ConfigNew
SpecConfig == InitConfig /\ [][NextConfig]_vars

\* format, on any line, word and style.
InitFormat ==
    /\ fmt_line \in Strings(Alphabet, MaxLineLen) \cup {TestSentence, DocSentence}
    /\ fmt_word \in Words \cup {TestWord, DocWord}
    /\ fmt_style \in StyleCodes
    /\ formatted = <<>>
    /\ ConfigIdle /\ RunIdle /\ SearchIdle
NextFormat == Format
SpecFormat == InitFormat /\ [][NextFormat]_vars

\* search and search_case_insensitive, on any query and any lines.
InitSearch ==
    /\ s_query \in SearchQueries
    /\ s_contents \in Strings(Strings(Alphabet, MaxSearchLen), MaxLines)
                        \cup {TestContents}
    /\ found = <<>> /\ found_ci = <<>>
    /\ ConfigIdle /\ RunIdle /\ FormatIdle
NextSearch == CallSearch \/ CallSearchCaseInsensitive
SpecSearch == InitSearch /\ [][NextSearch]_vars

----------------------------------------------------------------------------
(* What the claims speak of, stated without the code's scans *)

\* pat is a contiguous part of s.
Occurs(pat, s) ==
    \E i \in 0..Len(s) :
        /\ i + Len(pat) <= Len(s)
        /\ SubSeq(s, i + 1, i + Len(pat)) = pat

\* word stands in line at the 1-based place p.
MatchAt(line, word, p) ==
    /\ p + Len(word) - 1 <= Len(line)
    /\ SubSeq(line, p, p + Len(word) - 1) = word

\* The places of the left-to-right non-overlapping occurrences of word in line:
\* an occurrence counts unless one that counts, further left, overlaps it.
Occurrences(line, word) ==
    LET Ch[p \in 1..(Len(line) + 1)] ==
            /\ MatchAt(line, word, p)
            /\ \A r \in 1..(p - 1) : r + Len(word) > p => ~Ch[r]
    IN  {p \in 1..(Len(line) + 1) : Ch[p]}

RECURSIVE Flatten(_)
Flatten(ss) == IF ss = <<>> THEN <<>> ELSE Head(ss) \o Flatten(Tail(ss))

StartMarker(style) == <<"ESC", "[", DigitChar[style + 1], ";", "1", "m">>
ResetMarker == <<"ESC", "[", "0", "m">>

\* line with each of these occurrences replaced by the start marker, the word
\* and the reset marker, every other character kept in its place.
Highlighted(line, word, style) ==
    LET occ == Occurrences(line, word)
        inside(i) == \E p \in occ : p <= i /\ i < p + Len(word)
        piece(i) ==
            (IF i \in occ THEN StartMarker(style) \o word \o ResetMarker ELSE <<>>)
            \o (IF i <= Len(line) /\ ~inside(i) THEN <<line[i]>> ELSE <<>>)
    IN  Flatten([i \in 1..(Len(line) + 1) |-> piece(i)])

----------------------------------------------------------------------------
(* Claims on format (checked under SpecFormat) *)

\* C1: for every line, query and style in 1..9, format returns the line with
\* each left-to-right non-overlapping exact occurrence of the query replaced
\* by start-marker(style) + query + reset-marker and every other character
\* kept in order; the line "I love blue cheese!" with "love" and style 1
\* gives "I \x1b[1;1mlove\x1b[0m blue cheese!".
C1_FormatWraps ==
    formatted # <<>> /\ fmt_style \in 1..9 =>
        /\ formatted[1] = Highlighted(fmt_line, fmt_word, fmt_style)
        /\ fmt_line = TestSentence /\ fmt_word = TestWord /\ fmt_style = 1 =>
               formatted[1] =
                   <<"I", " ", "ESC", "[", "1", ";", "1", "m", "l", "o", "v", "e",
                     "ESC", "[", "0", "m", " ", "b", "l", "u", "e", " ",
                     "c", "h", "e", "e", "s", "e", "!">>

\* C1 witness: format has run with a style in 1..9 on a line in which the
\* query occurs at overlapping places, one of which only is wrapped.
C1_Witness ==
    /\ formatted # <<>>
    /\ fmt_style = 3
    /\ fmt_line = <<"a", "a", "a">>
    /\ fmt_word = <<"a", "a">>
    /\ formatted[1] = <<"ESC", "[", "3", ";", "1", "m", "a", "a",
                        "ESC", "[", "0", "m", "a">>

\* C2 as stated: for style = 0 and for every style > 9, format is the
\* identity: format(line, query, style) equals line.
C2_IdentityOutside1To9 ==
    formatted # <<>> /\ (fmt_style = 0 \/ fmt_style > 9) =>
        formatted[1] = fmt_line

\* C2 as amended: for every style > 9 format is the identity; for style = 0
\* it wraps the occurrences of the query as it does for the styles 1..9 (the
\* start marker being "\x1b[0;1m"), so that it returns the line unchanged
\* exactly when the query does not occur in it.
C2_IdentityAbove9 ==
    formatted # <<>> =>
        /\ fmt_style > 9 => formatted[1] = fmt_line
        /\ fmt_style = 0 =>
               /\ formatted[1] = Highlighted(fmt_line, fmt_word, 0)
               /\ (formatted[1] = fmt_line) <=> ~Occurs(fmt_word, fmt_line)

\* C2 witness: format has run with a style above 9 on a line in which the
\* query occurs, and has returned the line.
C2_Witness ==
    /\ formatted # <<>>
    /\ fmt_style = 10
    /\ fmt_word # <<>>
    /\ Occurs(fmt_word, fmt_line)
    /\ formatted[1] = fmt_line

----------------------------------------------------------------------------
(* Claims on the matchers (checked under SpecSearch) *)

\* idx is strictly ascending (hence free of duplicates), holds only indices
\* of lines, and holds i exactly when P(i).
Selects(idx, lines, P(_)) ==
    /\ \A k \in 1..Len(idx) : idx[k] \in 0..(Len(lines) - 1)
    /\ \A k \in 1..(Len(idx) - 1) : idx[k] < idx[k + 1]
    /\ \A i \in 0..(Len(lines) - 1) : P(i) <=> \E k \in 1..Len(idx) : idx[k] = i

\* C3: for every line sequence and query (the empty one too), each matcher
\* returns a strictly ascending, duplicate-free sequence of in-range indices
\* holding i if and only if line i contains the query as a contiguous
\* substring (search), or lowercase(line i) contains lowercase(query)
\* (search_case_insensitive); the empty query yields every index in both
\* modes; the lines of the tests with "duct" give [1] and [1, 3].
C3_MatcherSelects ==
    LET sensitive(i) == Occurs(s_query, s_contents[i + 1])
        insensitive(i) ==
            Occurs(to_lowercase(s_query), to_lowercase(s_contents[i + 1]))
        all == [k \in 1..Len(s_contents) |-> k - 1]
    IN  /\ found # <<>> =>
               /\ Selects(found[1], s_contents, sensitive)
               /\ s_query = <<>> => found[1] = all
               /\ s_query = TestQuery /\ s_contents = TestContents => found[1] = <<1>>
        /\ found_ci # <<>> =>
               /\ Selects(found_ci[1], s_contents, insensitive)
               /\ s_query = <<>> => found_ci[1] = all
               /\ s_query = TestQuery /\ s_contents = TestContents =>
                      found_ci[1] = <<1, 3>>

\* C3 witness: both matchers have run on two lines of which search selects
\* the second only and search_case_insensitive both.
C3_Witness ==
    /\ found = << <<1>> >>
    /\ found_ci = << <<0, 1>> >>
    /\ s_query = <<"a">>
    /\ Len(s_contents) = 2

\* C4: every index search returns is also returned by
\* search_case_insensitive on the same query and lines.
C4_SensitiveSubsetOfInsensitive ==
    found # <<>> /\ found_ci # <<>> =>
        \A k \in 1..Len(found[1]) :
            \E j \in 1..Len(found_ci[1]) : found_ci[1][j] = found[1][k]

----------------------------------------------------------------------------
(* Claims on Config::new (checked under SpecConfig) *)

\* The number of values that follow the program name.
Further == IF Len(args) = 0 THEN 0 ELSE Len(args) - 1

\* t is a decimal numeral, one "+" allowed before it, of a value in 0..255;
\* NumeralValue(t) is that value.
RECURSIVE Pow10(_)
Pow10(k) == IF k = 0 THEN 1 ELSE 10 * Pow10(k - 1)
RECURSIVE Sum(_, _)
Sum(f, n) == IF n = 0 THEN 0 ELSE f[n] + Sum(f, n - 1)
Unsigned(t) == IF t # <<>> /\ t[1] = "+" THEN SubSeq(t, 2, Len(t)) ELSE t
NumeralValue(t) ==
    LET d == Unsigned(t)
    IN  Sum([i \in 1..Len(d) |-> DigitValue(d[i]) * Pow10(Len(d) - i)], Len(d))
IsU8Numeral(t) ==
    /\ Unsigned(t) # <<>>
    /\ \A i \in 1..Len(Unsigned(t)) : Unsigned(t)[i] \in Digits
    /\ NumeralValue(t) \in 0..255

\* The message m holds the text lit.
Says(m, lit) == \E i \in 1..Len(m) : m[i] = lit

\* C5: Config::new fails if and only if fewer than two values follow the
\* program name: with none it fails with the 'missing query' error, with one
\* with the 'missing filename' error, and no Configuration is produced then;
\* an unparseable third value or extra values never make it fail.
C5_FailsIffFewerThanTwo ==
    built # <<>> =>
        /\ ~built[1].ok <=> Further < 2
        /\ Further = 0 =>
               /\ Says(built[1].err, "Missing the first argument (query)")
               /\ "config" \notin DOMAIN built[1]
        /\ Further = 1 =>
               /\ Says(built[1].err, "Missing the second argument (filename)")
               /\ "config" \notin DOMAIN built[1]
        /\ Further >= 3 /\ ~IsU8Numeral(args[4]) => built[1].ok
        /\ Further >= 4 => built[1].ok

\* C5 witness: Config::new has failed for the missing filename, one value
\* following the program name.
C5_Witness ==
    /\ built # <<>>
    /\ Len(args) = 2
    /\ ~built[1].ok
    /\ Says(built[1].err, "Missing the second argument (filename)")

\* C6: whenever at least two values follow the program name, Config::new
\* succeeds with query = the first, filename = the second and style = the
\* third when it parses as an integer in 0..255, otherwise 0; an unparseable
\* third value emits one warning, values beyond the third are discarded with
\* one warning and affect no field.
C6_FieldsFromArguments ==
    built # <<>> /\ Further >= 2 =>
        LET unparseable == Further >= 3 /\ ~IsU8Numeral(args[4])
            extra == Further >= 4
        IN  /\ built[1].ok
            /\ built[1].config.query = args[2]
            /\ built[1].config.filename = args[3]
            /\ built[1].config.style =
                   IF Further >= 3 /\ IsU8Numeral(args[4])
                   THEN NumeralValue(args[4]) ELSE 0
            /\ Len(stderr) = (IF unparseable THEN 1 ELSE 0) + (IF extra THEN 1 ELSE 0)
            /\ unparseable <=>
                   \E k \in 1..Len(stderr) :
                       Says(stderr[k],
                            "WARNING: Could not parse the third argument (style) as a u8")
            /\ extra <=>
                   \E k \in 1..Len(stderr) :
                       Says(stderr[k],
                            "WARNING: Too many arguments; the 4th one and up will be discarded")

\* C6 witness: Config::new has succeeded with a signed third value taken as
\* the style and a fourth value discarded with a warning.
C6_Witness ==
    /\ built # <<>>
    /\ Len(args) = 5
    /\ args[4] = <<"+", "2">>
    /\ built[1].ok
    /\ built[1].config.style = 2
    /\ Len(stderr) = 1

\* C7: the built Configuration has case_sensitive = false whenever the
\* environment toggle CASE_INSENSITIVE is set, whatever its value (the empty
\* one too), and case_sensitive = true exactly when the toggle is unset.
C7_CaseSensitiveIffUnset ==
    built # <<>> /\ built[1].ok =>
        (built[1].config.case_sensitive <=> env.kind = "unset")

----------------------------------------------------------------------------
(* Claims on run (checked under Spec) *)

\* The members of a finite set of numbers, in ascending order.
RECURSIVE Ascending(_)
Ascending(S) ==
    IF S = {} THEN <<>>
    ELSE LET m == CHOOSE x \in S : \A y \in S : x <= y
         IN  <<m>> \o Ascending(S \ {m})

\* The indices of the lines of the loaded file that satisfy the predicate of
\* the mode config.case_sensitive selects, in ascending order.
Matched ==
    Ascending({i \in 0..(Len(contents) - 1) :
                 IF config.case_sensitive
                 THEN Occurs(config.query, contents[i + 1])
                 ELSE Occurs(to_lowercase(config.query),
                             to_lowercase(contents[i + 1]))})

\* The output line of the k-th matched index.
OutputLine(k) ==
    IF config.style = 0 THEN contents[Matched[k] + 1]
    ELSE format(contents[Matched[k] + 1], config.query, config.style)

Readable == fs[config.filename].kind = "text"

\* C8: when the file loads, run prints exactly one line per matched index, in
\* ascending file order and no other line; each is the original line when
\* style = 0 and format(original line, query, style) when style > 0, the
\* matched indices being those of the mode config.case_sensitive selects;
\* run then returns success.
C8_RunPrintsMatches ==
    /\ pc = "print" =>
           /\ Len(stdout) <= Len(Matched)
           /\ stdout = [k \in 1..Len(stdout) |-> OutputLine(k)]
    /\ pc = "done" /\ Readable =>
           /\ stdout = [k \in 1..Len(Matched) |-> OutputLine(k)]
           /\ result # <<>> /\ result[1].ok

\* C8 witness: run has returned success after printing two formatted lines
\* of a file of three lines.
C8_Witness ==
    /\ pc = "done"
    /\ result # <<>> /\ result[1].ok
    /\ Len(contents) = 3
    /\ Len(stdout) = 2
    /\ config.style = 1
    /\ stdout[1] # contents[1]

\* C9: when the file cannot be read, run returns the file-unreadable error
\* before any matching and before any line is printed: in every run that ends
\* in that error no match step and no print step has occurred.
C9_ErrorBeforeMatching ==
    /\ result # <<>> /\ ~result[1].ok =>
           /\ Says(result[1].err, "Could not open the file ")
           /\ stdout = <<>>
           /\ \A k \in 1..Len(log) : log[k][1] \notin {"search", "print"}
    /\ ~Readable =>
           /\ stdout = <<>>
           /\ \A k \in 1..Len(log) : log[k][1] \notin {"search", "print"}
           /\ pc = "done" => result # <<>> /\ ~result[1].ok

\* C9 witness: run has ended in the error on a file that is not UTF-8, its
\* only step being the read.
C9_Witness ==
    /\ pc = "done"
    /\ fs[config.filename].kind = "not_utf8"
    /\ result # <<>> /\ ~result[1].ok
    /\ log = << <<"read_file">> >>

\* The line the k-th print step printed: the steps before the first print
\* are the read and the search.
PrintedLine(k) == contents[log[k + 2][2] + 1]

\* C10: in case-insensitive mode with a style in 1..9, a line selected only
\* for a differently-cased occurrence of the query (it holds no exact-case
\* one) is printed with no marker added, identical to the original line; in
\* either mode run highlights only the exact-case occurrences of the query
\* in the original line.
C10_OnlyExactCaseHighlighted ==
    config.style \in 1..9 =>
        \A k \in 1..Len(stdout) :
            /\ ~config.case_sensitive /\ ~Occurs(config.query, PrintedLine(k)) =>
                   /\ stdout[k] = PrintedLine(k)
                   /\ \A i \in 1..Len(stdout[k]) : stdout[k][i] # "ESC"
            /\ stdout[k] = Highlighted(PrintedLine(k), config.query, config.style)

\* C10 witness: in case-insensitive mode with style 9, run has printed
\* unchanged a line that holds the query in another case only, and then a
\* line with its exact-case occurrence wrapped.
C10_Witness ==
    /\ pc = "done"
    /\ ~config.case_sensitive
    /\ config.style = 9
    /\ config.query = <<"a">>
    /\ contents = << <<"A">>, <<"a">> >>
    /\ stdout = << <<"A">>,
                   <<"ESC", "[", "9", ";", "1", "m", "a", "ESC", "[", "0", "m">> >>

====
